---- MODULE Spec2Model ----
(***************************************************************************)
(* git-branch-delete: interactive bulk deletion of local git branches.     *)
(*                                                                         *)
(* The repository holds two implementations of the same workflow:          *)
(*   "ts"     - src/src/git-branch-delete.ts (batched delete, try/catch)   *)
(*   "legacy" - src/unnamed/part_000 (one delete call per branch)          *)
(* Both are modelled; the variable impl says which one is running.         *)
(*                                                                         *)
(* Text (command lines, git output, branch names) is a sequence of         *)
(* one-character strings, so that splitting, trimming and shell quoting    *)
(* are computed the way the code and /bin/sh compute them.                 *)
(***************************************************************************)
EXTENDS Integers, Sequences, FiniteSets, TLC

VARIABLES
    impl,       \* which implementation runs: "ts" or "legacy"
    \* ---- repository locator (findGitRoot / isGitRepository) ----
    cwd,        \* depth of process.cwd(); 0 is the filesystem root "/"
    gitAt,      \* depths (on the path from "/" to cwd) that hold a .git entry
    located,    \* result of the locator (FALSE before it ran)
    \* ---- branch lister, as a function of the command's output ----
    shape,      \* line shape of the synthetic output: "spec" or "cmd"
    entries,    \* the lines' fields: marker, name, rel, abs
    stdout,     \* the enumeration command's output text
    parsed,     \* getGitBranches' records (empty before it ran)
    \* ---- workflow (main) ----
    pc,         \* position of main
    repo,       \* local branches, in the order git enumerates them
    head,       \* index in repo of the checked-out branch, 0 if none is
    repo0,      \* repo when the run started
    listing,    \* getGitBranches' result inside main
    choices,    \* choice list handed to the multi-select prompt
    selected,   \* names the multi-select prompt returned
    answer,     \* what the confirmation prompt ended with
    retypes,    \* rejected inputs typed at the open confirmation prompt
    calls,      \* delete commands handed to exec, in issue order
    pending,    \* indices of calls whose callback has not run yet
    failing,    \* indices of calls that the environment makes fail
    out,        \* console output, as a sequence of events
    exitCode    \* process exit code, "none" while running

locVars == <<cwd, gitAt, located>>
parseVars == <<shape, entries, stdout, parsed>>
mainVars == <<pc, repo, head, repo0, listing, choices, selected, answer,
              retypes, calls, pending, failing, out, exitCode>>
vars == <<impl, locVars, parseVars, mainVars>>

Impls == {"ts", "legacy"}

----------------------------------------------------------------------------
(* Bounds *)

MaxDepth == 4       \* deepest working directory (SpecLocate)
MainDepth == 1      \* deepest working directory inside the workflow
MaxLines == 2       \* lines of synthetic enumeration output (SpecParse)
MaxBranches == 3    \* branches in the repository
MaxRetypes == 1     \* rejected inputs at the confirmation prompt

----------------------------------------------------------------------------
(* Text helpers: JavaScript string operations on sequences of characters *)

NL == "\n"
Whitespace == {" ", NL}

Range(s) == {s[i] : i \in 1..Len(s)}

RECURSIVE Concat(_)
Concat(ss) == IF ss = <<>> THEN <<>> ELSE Head(ss) \o Concat(Tail(ss))

\* String.prototype.startsWith
StartsWith(s, p) == Len(s) >= Len(p) /\ SubSeq(s, 1, Len(p)) = p

\* String.prototype.substring(n): the text from 0-based position n on
SubstringFrom(s, n) == SubSeq(s, n + 1, Len(s))

\* position of the first occurrence of d in s, 0 if there is none
IndexOf(s, d) ==
    LET hits == {i \in 1..(Len(s) - Len(d) + 1) : SubSeq(s, i, i + Len(d) - 1) = d}
    IN  IF hits = {} THEN 0 ELSE CHOOSE i \in hits : \A j \in hits : i <= j

\* String.prototype.split(d) for a non-empty delimiter d
RECURSIVE SplitOn(_, _)
SplitOn(s, d) ==
    LET i == IndexOf(s, d)
    IN  IF i = 0 THEN <<s>>
        ELSE <<SubSeq(s, 1, i - 1)>> \o SplitOn(SubSeq(s, i + Len(d), Len(s)), d)

\* s.replace(/^[\s*]+/, ""): drop the leading run of characters of cs
RECURSIVE StripLeading(_, _)
StripLeading(s, cs) ==
    IF s # <<>> /\ Head(s) \in cs THEN StripLeading(Tail(s), cs) ELSE s

RECURSIVE StripTrailing(_, _)
StripTrailing(s, cs) ==
    IF s # <<>> /\ s[Len(s)] \in cs
    THEN StripTrailing(SubSeq(s, 1, Len(s) - 1), cs) ELSE s

\* String.prototype.trim
Trim(s) == StripTrailing(StripLeading(s, Whitespace), Whitespace)

----------------------------------------------------------------------------
(* Repository locator *)

\* path.resolve(dir, ".."): the parent directory; the root is its own parent
Parent(dir) == IF dir = 0 THEN 0 ELSE dir - 1

\* ts: while (dir !== "/") { if (existsSync(dir/.git)) return true; dir = parent }
RECURSIVE findGitRoot(_, _)
findGitRoot(dir, git) ==
    IF dir # 0
    THEN IF dir \in git THEN TRUE ELSE findGitRoot(Parent(dir), git)
    ELSE FALSE

\* legacy: for (;;) { if (existsSync) return true; if (dir === "/") return false; .. }
RECURSIVE isGitRepository(_, _)
isGitRepository(dir, git) ==
    IF dir \in git THEN TRUE
    ELSE IF dir = 0 THEN FALSE
    ELSE isGitRepository(Parent(dir), git)

Locate(i, dir, git) ==
    IF i = "ts" THEN findGitRoot(dir, git) ELSE isGitRepository(dir, git)

----------------------------------------------------------------------------
(* Branch lister: getGitBranches as a function of the command's output *)

Delim == <<":", ":", ":">>
Unknown == <<"U", "n", "k", "n", "o", "w", "n">>
\* the value of a destructured array element that is not there
Undefined == <<"<undefined>">>

Branch(n, rel, abs, cur) ==
    [name |-> n, lastCommitRelative |-> rel, lastCommit |-> abs, isCurrent |-> cur]

\* const [a = dflt] = parts: element i of parts, dflt when it is missing
ElemOr(parts, i, dflt) == IF i <= Len(parts) THEN parts[i] ELSE dflt

\* ParseLineTs with the marker left on the name (no prefix.replace)
ParseLineTs_KeepMarker(line) ==
    LET fields == SplitOn(line, Delim)
        prefix == Head(fields)
        parts  == Tail(fields)
    IN  Branch(prefix,
               ElemOr(parts, 1, Unknown),
               ElemOr(parts, 2, <<>>),
               StartsWith(prefix, <<"*">>))

\* ts, the body of .map((line) => ...), lines 42-49
ParseLineTs(line) ==
    LET fields == SplitOn(line, Delim)
        prefix == Head(fields)
        parts  == Tail(fields)
    IN  Branch(StripLeading(prefix, Whitespace \cup {"*"}),
               ElemOr(parts, 1, Unknown),
               ElemOr(parts, 2, <<>>),
               StartsWith(prefix, <<"*">>))

\* legacy, the body of .map((line) => ...), lines 45-58
ParseLineLegacy(line) ==
    LET fields == SplitOn(SubstringFrom(line, 2), Delim)
        rel    == ElemOr(fields, 2, Undefined)
    IN  Branch(Head(fields),
               IF rel \in {Undefined, <<>>} THEN Unknown ELSE rel,
               ElemOr(fields, 3, Undefined),
               StartsWith(line, <<"*", ":">>))

HasName(b) == b.name # <<>>

\* ts: stdout.trim().split("\n").map(...).filter((branch) => branch.name)
ParseTs(text) ==
    LET lines == SplitOn(Trim(text), <<NL>>)
    IN  SelectSeq([i \in 1..Len(lines) |-> ParseLineTs(lines[i])], HasName)

\* legacy: stdout.split("\n").map(...).filter((branch) => branch.name !== "")
ParseLegacy(text) ==
    LET lines == SplitOn(text, <<NL>>)
    IN  SelectSeq([i \in 1..Len(lines) |-> ParseLineLegacy(lines[i])], HasName)

getGitBranches(i, text) == IF i = "ts" THEN ParseTs(text) ELSE ParseLegacy(text)

\* One line of the enumeration command's output, as its --format string
\* lays it out: ts "%(HEAD-marker)%(refname:short):::rel:::abs",
\* legacy "%(HEAD):%(refname:short):::rel:::abs".
FormatLine(i, e) ==
    IF i = "ts"
    THEN <<e.marker>> \o e.name \o Delim \o e.rel \o Delim \o e.abs \o <<NL>>
    ELSE <<e.marker, ":">> \o e.name \o Delim \o e.rel \o Delim \o e.abs \o <<NL>>

GitOutput(i, es) == Concat([k \in 1..Len(es) |-> FormatLine(i, es[k])])

----------------------------------------------------------------------------
(* Branch selector: the choice list of selectBranchNames *)

\* Collation of the characters branch names are built from here; for these
\* a.localeCompare(b) is the lexicographic order by this rank.
Collation == <<"'", "a", "b">>
CharRank(c) == CHOOSE i \in 1..Len(Collation) : Collation[i] = c

\* a.localeCompare(b) < 0
RECURSIVE LocaleLess(_, _)
LocaleLess(a, b) ==
    IF a = <<>> THEN b # <<>>
    ELSE IF b = <<>> THEN FALSE
    ELSE IF Head(a) = Head(b) THEN LocaleLess(Tail(a), Tail(b))
    ELSE CharRank(Head(a)) < CharRank(Head(b))

\* Array.prototype.sort is stable: x goes behind every element it does not precede
RECURSIVE InsertByName(_, _)
InsertByName(x, s) ==
    IF s = <<>> THEN <<x>>
    ELSE IF LocaleLess(x.name, Head(s).name) THEN <<x>> \o s
    ELSE <<Head(s)>> \o InsertByName(x, Tail(s))

\* .sort((a, b) => a.name.localeCompare(b.name))
RECURSIVE SortByName(_)
SortByName(s) ==
    IF s = <<>> THEN <<>>
    ELSE InsertByName(s[Len(s)], SortByName(SubSeq(s, 1, Len(s) - 1)))

RECURSIVE InsertCurrentFirst(_, _)
InsertCurrentFirst(x, s) ==
    IF s = <<>> THEN <<x>>
    ELSE IF x.isCurrent /\ ~Head(s).isCurrent THEN <<x>> \o s
    ELSE <<Head(s)>> \o InsertCurrentFirst(x, Tail(s))

\* .sort((a, b) => Number(b.isCurrent) - Number(a.isCurrent))
RECURSIVE SortCurrentFirst(_)
SortCurrentFirst(s) ==
    IF s = <<>> THEN <<>>
    ELSE InsertCurrentFirst(s[Len(s)], SortCurrentFirst(SubSeq(s, 1, Len(s) - 1)))

IsCurrent(b) == b.isCurrent
NotCurrent(b) == ~b.isCurrent

\* the choices' values (a choice's message is its name and relative time)
NamesOf(s) == [i \in 1..Len(s) |-> s[i].name]

\* SortedTs without the second sort that brings the current branch to the front
SortedTs_NameOnly(branches) == SortByName(branches)

\* ts: const [current, ...others] = branches.sort(byName).sort(currentFirst)
SortedTs(branches) == SortCurrentFirst(SortByName(branches))

selectChoicesTs(branches) ==
    LET sorted == SortedTs(branches)
    IN  IF sorted = <<>> THEN <<>> ELSE NamesOf(Tail(sorted))

\* ts: if (current?.isCurrent) console.log("Current branch: ...")
ShownCurrentTs(branches) ==
    LET sorted == SortedTs(branches)
    IN  IF sorted # <<>> /\ Head(sorted).isCurrent THEN <<Head(sorted).name>> ELSE <<>>

\* legacy: sortedBranches.filter((branch) => !branch.isCurrent)
selectChoicesLegacy(branches) == NamesOf(SelectSeq(SortByName(branches), NotCurrent))

\* legacy: sortedBranches.find((branch) => branch.isCurrent)
ShownCurrentLegacy(branches) ==
    LET cur == SelectSeq(SortByName(branches), IsCurrent)
    IN  IF cur # <<>> THEN <<Head(cur).name>> ELSE <<>>

selectChoices(i, branches) ==
    IF i = "ts" THEN selectChoicesTs(branches) ELSE selectChoicesLegacy(branches)

ShownCurrent(i, branches) ==
    IF i = "ts" THEN ShownCurrentTs(branches) ELSE ShownCurrentLegacy(branches)

\* the multi-select prompt returns the toggled choices, in list order
RECURSIVE Pick(_, _)
Pick(s, idx) ==
    IF s = <<>> THEN <<>>
    ELSE Pick(SubSeq(s, 1, Len(s) - 1), idx)
         \o (IF Len(s) \in idx THEN <<s[Len(s)]>> ELSE <<>>)

----------------------------------------------------------------------------
(* Deletion confirmer *)

\* validate: /^(yes|no)$/.test(input), input === "yes" || input === "no"
Validate(input) == input \in {"yes", "no"}

\* Confirmed taking every input the validator lets through as consent
Confirmed_AnyValidInput(input) == Validate(input)

\* return confirmation === "yes"
Confirmed(input) == input = "yes"

----------------------------------------------------------------------------
(* Branch deleter: the command line, and what /bin/sh makes of it *)

GitBranchD == <<"g", "i", "t", " ", "b", "r", "a", "n", "c", "h", " ", "-", "D">>

\* `'${b}'`
Quote(b) == <<"'">> \o b \o <<"'">>

\* `git branch -D ${branches.map((b) => `'${b}'`).join(" ")}`, one name in legacy
DeleteCommand(names) ==
    GitBranchD \o Concat([i \in 1..Len(names) |-> <<" ">> \o Quote(names[i])])

\* /bin/sh -c: words are split at unquoted blanks; a single quote opens or
\* closes a quoted stretch and is removed; an unclosed quote is a syntax error.
RECURSIVE ShScan(_, _, _, _, _)
ShScan(rest, inQuote, word, inWord, words) ==
    IF rest = <<>>
    THEN [ok |-> ~inQuote, words |-> IF inWord THEN Append(words, word) ELSE words]
    ELSE LET c == Head(rest) IN
         IF c = "'" THEN ShScan(Tail(rest), ~inQuote, word, TRUE, words)
         ELSE IF c = " " /\ ~inQuote
         THEN ShScan(Tail(rest), FALSE, <<>>, FALSE,
                     IF inWord THEN Append(words, word) ELSE words)
         ELSE ShScan(Tail(rest), inQuote, Append(word, c), TRUE, words)

ShellWords(cmd) == ShScan(cmd, FALSE, <<>>, FALSE, <<>>)

\* the branch names git receives: argv after "git", "branch", "-D"
GitTargets(names) ==
    LET sh == ShellWords(DeleteCommand(names))
    IN  IF sh.ok THEN SubSeq(sh.words, 4, Len(sh.words)) ELSE <<>>

CommandParses(names) == ShellWords(DeleteCommand(names)).ok

----------------------------------------------------------------------------
(* The external git repository *)

\* branch names a repository may hold (git allows ' in a ref name)
BranchNames == { <<"a">>, <<"a", "b">>, <<"a", "'", "'", "b">>, <<"b", "'">> }

NoHead == <<>>      \* HEAD names no listed branch (unborn branch, detached HEAD)

RelTime == <<"r">>
AbsTime == <<"t">>

Distinct(s) == \A i, j \in 1..Len(s) : i # j => s[i] # s[j]

Repos == UNION {{r \in [1..n -> BranchNames] : Distinct(r)} : n \in 0..MaxBranches}

\* what the enumeration command prints for the repository
RepoEntries(r, h) ==
    [k \in 1..Len(r) |->
        [marker |-> IF r[k] = h THEN "*" ELSE " ", name |-> r[k],
         rel |-> RelTime, abs |-> AbsTime]]

\* git branch -D t1 t2 ...: every target is tried; a target that is missing
\* (or already deleted by this call) or checked out is an error
GitDeleteOk(r, h, targets) ==
    \A i \in 1..Len(targets) :
        /\ targets[i] \in Range(r) \ {h}
        /\ \A j \in 1..(i - 1) : targets[j] # targets[i]

GitDelete(r, h, targets) ==
    LET gone == Range(targets) \ {h}
        Keep(n) == n \notin gone
    IN  SelectSeq(r, Keep)

----------------------------------------------------------------------------
(* Workflow: main, one action per stretch between two awaits *)

Ev(tag, arg) == [ev |-> tag, arg |-> arg]
Said(tag) == \E i \in 1..Len(out) : out[i].ev = tag

\* an unhandled promise rejection ends the process with code 1 on current
\* Node and only warns (code 0) on Node before 15
UnhandledRejectionCodes == {0, 1}

\* the listing is a one-record listing of the current branch
NothingToDo(branches) == Len(branches) = 1 /\ branches[1].isCurrent

MainInit ==
    /\ pc = "start"
    /\ repo \in Repos
    /\ head \in Range(repo) \cup {NoHead}
    /\ repo0 = repo
    /\ listing = <<>>
    /\ choices = <<>>
    /\ selected = <<>>
    /\ answer = "none"
    /\ retypes = 0
    /\ calls = <<>>
    /\ pending = {}
    /\ failing = {}
    /\ out = <<>>
    /\ exitCode = "none"

\* main up to the first await: the locator
LocateStep ==
    /\ pc = "start"
    /\ located' = Locate(impl, cwd, gitAt)
    /\ IF located'
       THEN pc' = "list" /\ out' = out
       ELSE pc' = "returned" /\ out' = Append(out, Ev("notRepository", <<>>))
    /\ UNCHANGED <<impl, cwd, gitAt, parseVars, repo, head, repo0, listing, choices,
                   selected, answer, retypes, calls, pending, failing, exitCode>>

\* the enumeration command fails: ts wraps and rethrows into main's catch,
\* which prints and calls process.exit(1); legacy rejects, and main has no handler
ListFails ==
    /\ pc = "list"
    /\ pc' = "exited"
    /\ IF impl = "ts"
       THEN /\ out' = Append(out, Ev("ErrorFailedToGetBranches", <<>>))
            /\ exitCode' = 1
       ELSE /\ out' = Append(out, Ev("unhandledExecError", <<>>))
            /\ exitCode' \in UnhandledRejectionCodes
    /\ UNCHANGED <<impl, locVars, parseVars, repo, head, repo0, listing, choices,
                   selected, answer, retypes, calls, pending, failing>>

\* the enumeration command succeeds: parse, nothing-to-do check, and the
\* selector up to its prompt
ListStep ==
    /\ pc = "list"
    /\ LET branches == getGitBranches(impl, GitOutput(impl, RepoEntries(repo, head)))
           cur      == ShownCurrent(impl, branches)
       IN  /\ listing' = branches
           /\ IF NothingToDo(branches)
              THEN /\ pc' = "returned"
                   /\ out' = Append(out, Ev("nothingToDo", <<>>))
                   /\ choices' = choices
              ELSE /\ pc' = "select"
                   /\ choices' = selectChoices(impl, branches)
                   /\ out' = out
                             \o (IF cur # <<>> THEN <<Ev("currentBranch", cur[1])>> ELSE <<>>)
                             \o <<Ev("promptSelect", <<>>)>>
    /\ UNCHANGED <<impl, locVars, parseVars, repo, head, repo0, selected, answer,
                   retypes, calls, pending, failing, exitCode>>

\* the multi-select prompt is cancelled: message, process.exit(0)
SelectCancelled ==
    /\ pc = "select"
    /\ pc' = "exited"
    /\ out' = Append(out, Ev("exiting", <<>>))
    /\ exitCode' = 0
    /\ UNCHANGED <<impl, locVars, parseVars, repo, head, repo0, listing, choices,
                   selected, answer, retypes, calls, pending, failing>>

\* the multi-select prompt returns; an empty selection ends main, otherwise
\* the confirmer lists the names and prompts
SelectStep ==
    /\ pc = "select"
    /\ \E idx \in SUBSET (1..Len(choices)) :
          /\ selected' = Pick(choices, idx)
          /\ IF selected' = <<>>
             THEN pc' = "returned" /\ out' = out
             ELSE /\ pc' = "confirm"
                  /\ out' = out \o [i \in 1..Len(selected') |-> Ev("toDelete", selected'[i])]
                                \o <<Ev("promptConfirm", <<>>)>>
    /\ UNCHANGED <<impl, locVars, parseVars, repo, head, repo0, listing, choices,
                   answer, retypes, calls, pending, failing, exitCode>>

\* an input the validator rejects: the prompt stays open
ConfirmRetype ==
    /\ pc = "confirm"
    /\ retypes < MaxRetypes
    /\ \E input \in {"maybe", "Yes", ""} : ~Validate(input)
    /\ retypes' = retypes + 1
    /\ UNCHANGED <<impl, locVars, parseVars, pc, repo, head, repo0, listing, choices,
                   selected, answer, calls, pending, failing, out, exitCode>>

\* ts hands exec one command naming every branch; legacy logs and hands
\* exec one command per branch, all before any of them completes
IssuedCalls(i, names) ==
    IF i = "ts" THEN <<names>> ELSE [k \in 1..Len(names) |-> <<names[k]>>]

IssueLog(i, names) ==
    IF i = "ts" THEN <<>> ELSE [k \in 1..Len(names) |-> Ev("command", names[k])]

\* the confirmation prompt returns "yes" or "no"
ConfirmStep ==
    /\ pc = "confirm"
    /\ \E input \in {"yes", "no"} :
          /\ Validate(input)
          /\ answer' = input
          /\ IF Confirmed(input)
             THEN /\ pc' = "deleting"
                  /\ calls' = IssuedCalls(impl, selected)
                  /\ pending' = 1..Len(calls')
                  /\ failing' \in SUBSET (1..Len(calls'))
                  /\ out' = out \o IssueLog(impl, selected)
             ELSE /\ pc' = "returned"
                  /\ out' = Append(out, Ev("noBranchesDeleted", <<>>))
                  /\ UNCHANGED <<calls, pending, failing>>
    /\ retypes' = 0
    /\ UNCHANGED <<impl, locVars, parseVars, repo, head, repo0, listing, choices,
                   selected, exitCode>>

\* the confirmation prompt is cancelled: ts catches and returns false;
\* legacy has no handler, so askForConfirmation and main reject
ConfirmCancelled ==
    /\ pc = "confirm"
    /\ answer' = "cancel"
    /\ IF impl = "ts"
       THEN /\ pc' = "returned"
            /\ out' = Append(out, Ev("noBranchesDeleted", <<>>))
            /\ exitCode' = exitCode
       ELSE /\ pc' = "exited"
            /\ out' = Append(out, Ev("unhandledCancel", <<>>))
            /\ exitCode' \in UnhandledRejectionCodes
    /\ retypes' = 0
    /\ UNCHANGED <<impl, locVars, parseVars, repo, head, repo0, listing, choices,
                   selected, calls, pending, failing>>

\* does call k succeed: the environment lets it, /bin/sh parses it, git deletes
CallOk(k) ==
    /\ k \notin failing
    /\ CommandParses(calls[k])
    /\ GitDeleteOk(repo, head, GitTargets(calls[k]))

RepoAfter(k) ==
    IF k \in failing \/ ~CommandParses(calls[k]) THEN repo
    ELSE GitDelete(repo, head, GitTargets(calls[k]))

\* ts: the batched command completes
DeleteDoneTs ==
    /\ pc = "deleting"
    /\ impl = "ts"
    /\ pending = {1}
    /\ pending' = {}
    /\ repo' = RepoAfter(1)
    /\ IF CallOk(1)
       THEN /\ pc' = "returned"
            /\ out' = out \o <<Ev("stdout", <<>>), Ev("allDeleted", <<>>)>>
            /\ exitCode' = exitCode
       ELSE /\ pc' = "exited"
            /\ out' = Append(out, Ev("ErrorFailedToDelete", <<>>))
            /\ exitCode' = 1
    /\ UNCHANGED <<impl, locVars, parseVars, head, repo0, listing, choices, selected,
                   answer, retypes, calls, failing>>

\* legacy: the callback of one per-branch command runs. A failure is
\* reported and rejects its promise; the first rejection rejects
\* Promise.all and with it deleteBranches, and main's catch prints it.
\* The last success resolves Promise.all.
DeleteCallback(k) ==
    /\ impl = "legacy"
    /\ k \in pending
    /\ pending' = pending \ {k}
    /\ repo' = RepoAfter(k)
    /\ IF CallOk(k)
       THEN IF pc = "deleting" /\ pending' = {}
            THEN /\ out' = out \o <<Ev("stdout", calls[k][1]), Ev("allDeleted", <<>>)>>
                 /\ pc' = "returned"
            ELSE /\ out' = Append(out, Ev("stdout", calls[k][1]))
                 /\ pc' = pc
       ELSE IF pc = "deleting"
            THEN /\ out' = out \o <<Ev("errorDeleting", calls[k][1]),
                                    Ev("errorOccurred", calls[k][1])>>
                 /\ pc' = "returned"
            ELSE /\ out' = Append(out, Ev("errorDeleting", calls[k][1]))
                 /\ pc' = pc
    /\ UNCHANGED <<impl, locVars, parseVars, head, repo0, listing, choices, selected,
                   answer, retypes, calls, failing, exitCode>>

\* main has returned and nothing is in flight: the process ends with code 0
ProcessExit ==
    /\ pc = "returned"
    /\ pending = {}
    /\ pc' = "exited"
    /\ exitCode' = 0
    /\ UNCHANGED <<impl, locVars, parseVars, repo, head, repo0, listing, choices,
                   selected, answer, retypes, calls, pending, failing, out>>

Init ==
    /\ impl \in Impls
    /\ cwd \in 0..MainDepth
    /\ gitAt \in SUBSET (0..cwd)
    /\ located = FALSE
    /\ shape = "cmd" /\ entries = <<>> /\ stdout = <<>> /\ parsed = <<>>
    /\ MainInit

Next ==
    \/ LocateStep
    \/ ListFails
    \/ ListStep
    \/ SelectCancelled
    \/ SelectStep
    \/ ConfirmRetype
    \/ ConfirmStep
    \/ ConfirmCancelled
    \/ DeleteDoneTs
    \/ \E k \in 1..MaxBranches : DeleteCallback(k)
    \/ ProcessExit

Spec == Init /\ [][Next]_vars

----------------------------------------------------------------------------
(* The locator alone, over deeper directory trees *)

InitLocate ==
    /\ impl \in Impls
    /\ cwd \in 0..MaxDepth
    /\ gitAt \in SUBSET (0..cwd)
    /\ located = FALSE
    /\ shape = "cmd" /\ entries = <<>> /\ stdout = <<>> /\ parsed = <<>>
    /\ MainInit
    /\ repo = <<>>

SpecLocate == InitLocate /\ [][LocateStep]_vars

----------------------------------------------------------------------------
(* The lister alone, over synthetic outputs of the enumeration command *)

Markers == {"*", " "}
LineNames == { <<"a">>, <<"a", "b">>, <<"b", "'">> }
RelTimes == { <<"r">>, <<"2", " ", "h">> }
AbsTimes == { <<"t">>, <<"0", ":", "0">> }

LineFields == [marker : Markers, name : LineNames, rel : RelTimes, abs : AbsTimes]

\* listings git can print: names are unique and at most one line is marked
Listings ==
    UNION {{es \in [1..n -> LineFields] :
               \A i, j \in 1..n :
                   i # j => es[i].name # es[j].name
                            /\ ~(es[i].marker = "*" /\ es[j].marker = "*")}
           : n \in 0..MaxLines}

\* a line with the marker as a field of its own: <marker>:::<name>:::<rel>:::<abs>
MarkerFieldLine(e) ==
    <<e.marker>> \o Delim \o e.name \o Delim \o e.rel \o Delim \o e.abs \o <<NL>>

Render(s, i, es) ==
    IF s = "spec" THEN Concat([k \in 1..Len(es) |-> MarkerFieldLine(es[k])])
    ELSE GitOutput(i, es)

InitParse ==
    /\ impl \in Impls
    /\ cwd = 0 /\ gitAt = {} /\ located = FALSE
    /\ shape \in {"spec", "cmd"}
    /\ entries \in Listings
    /\ stdout = Render(shape, impl, entries)
    /\ parsed = <<>>
    /\ MainInit
    /\ repo = <<>>
    /\ pc = "start"

\* the exec callback of getGitBranches on success
ParseStep ==
    /\ pc = "start"
    /\ pc' = "parsed"
    /\ parsed' = getGitBranches(impl, stdout)
    /\ UNCHANGED <<impl, locVars, shape, entries, stdout, repo, head, repo0, listing,
                   choices, selected, answer, retypes, calls, pending, failing, out,
                   exitCode>>

SpecParse == InitParse /\ [][ParseStep]_vars

----------------------------------------------------------------------------
(* Properties *)

CurrentNames(l) == {l[i].name : i \in {j \in 1..Len(l) : l[j].isCurrent}}
NonCurrentNames(l) == {l[i].name : i \in {j \in 1..Len(l) : ~l[j].isCurrent}}

\* C1: no delete command is issued, and the repository's branches stay as
\* they were, unless the confirmation prompt returned "yes" in this run.
C1_NoDeleteWithoutYes ==
    (calls # <<>> \/ repo # repo0) => answer = "yes"

\* the user picked branches and answered "no": the run ended, nothing was issued
C1_Witness ==
    /\ pc = "exited"
    /\ answer = "no"
    /\ selected # <<>>
    /\ calls = <<>>
    /\ repo = repo0

\* C2: the choice list of the multi-select prompt never holds the name of
\* the current branch, and what the prompt returns is drawn from the
\* non-current names of the listing.
C2_CurrentNeverOffered ==
    /\ Range(choices) \cap CurrentNames(listing) = {}
    /\ Range(selected) \subseteq NonCurrentNames(listing)

\* a listing with a current branch and two others, one of them picked
C2_Witness ==
    /\ pc = "confirm"
    /\ CurrentNames(listing) # {}
    /\ Len(choices) >= 2
    /\ selected # <<>>

\* an exec call of the run ended in an error
CallFailed ==
    \/ Said("ErrorFailedToGetBranches")
    \/ Said("unhandledExecError")
    \/ Said("ErrorFailedToDelete")
    \/ Said("errorDeleting")

\* C3: the process ends with code 0 on every path on which no git call
\* failed, and with a non-zero code whenever the enumeration call or a
\* delete call failed.
C3_ExitCodes ==
    pc = "exited" => IF CallFailed THEN exitCode # 0 ELSE exitCode = 0

\* the records the fields of the lines stand for
ExpectedRecords(es) ==
    [k \in 1..Len(es) |->
        Branch(es[k].name, es[k].rel, es[k].abs, es[k].marker = "*")]

\* C4 (as stated): every output whose lines are
\* <marker>:::<name>:::<relative-time>:::<absolute-time> parses to one record
\* per line with exactly these fields.
C4_MarkerFieldShapeParses ==
    (pc = "parsed" /\ shape = "spec") => parsed = ExpectedRecords(entries)

\* C4 (amended): every output whose lines have the shape the implementation's
\* own enumeration command prints (marker directly before the name in ts,
\* marker and one colon before the name in legacy) parses to one record per
\* line with exactly these fields.
C4_CommandShapeParses ==
    (pc = "parsed" /\ shape = "cmd") => parsed = ExpectedRecords(entries)

\* two lines in the command's shape, the first marked current, parsed
C4_Witness ==
    /\ pc = "parsed"
    /\ shape = "cmd"
    /\ Len(entries) = 2
    /\ entries[1].marker = "*"
    /\ Len(parsed) = 2
    /\ parsed[1].isCurrent /\ ~parsed[2].isCurrent

\* C5: a cancelled confirmation prompt counts as "do not delete": no delete
\* command, the no-branches-deleted message, exit code 0.
C5_CancelMeansNo ==
    (pc = "exited" /\ answer = "cancel") =>
        /\ calls = <<>>
        /\ Said("noBranchesDeleted")
        /\ exitCode = 0

\* C6: per-branch strategy: a delete command is issued for every selected
\* name, and the failure of deleteBranches reaches main only when no
\* per-branch command is still running.
C6_AggregateAfterAllCalls ==
    impl = "legacy" =>
        /\ calls # <<>> => Len(calls) = Len(selected)
        /\ Said("errorOccurred") => pending = {}

\* C7: the branch names git receives from the delete commands are the
\* selected names, in order, each once.
C7_TargetsAreTheSelection ==
    calls # <<>> =>
        Concat([k \in 1..Len(calls) |-> GitTargets(calls[k])]) = selected

\* C8: the locator answers TRUE exactly when the working directory or one of
\* its ancestors, the root included, holds .git.
C8_LocatorFindsAnyAncestor ==
    pc # "start" => (located <=> \E d \in 0..cwd : d \in gitAt)

\* C9: the choice list holds every non-current branch of the listing exactly
\* once, in ascending order of name.
C9_AllNonCurrentOffered ==
    Said("promptSelect") =>
        /\ \A n \in NonCurrentNames(listing) :
              Cardinality({i \in 1..Len(choices) : choices[i] = n}) = 1
        /\ \A i, j \in 1..Len(choices) : i < j => LocaleLess(choices[i], choices[j])

IsReport(e) == e.ev \in {"stdout", "errorDeleting"}
IsFailure(e) == e.ev = "errorDeleting"
IsAggregate(e) == e.ev = "errorOccurred"
ArgsOf(s) == [i \in 1..Len(s) |-> s[i].arg]

\* the selected names whose delete command was reported as failed
FailedInInputOrder ==
    LET failed == Range(ArgsOf(SelectSeq(out, IsFailure)))
        Failed(n) == n \in failed
    IN  SelectSeq(selected, Failed)

\* C10: per-branch strategy: once the run is over, the per-branch reports
\* stand in input order and the error deleteBranches failed with is that of
\* the first failing name in input order, whatever order the commands
\* completed in.
C10_ReportsInInputOrder ==
    (impl = "legacy" /\ pc = "exited" /\ calls # <<>>) =>
        /\ ArgsOf(SelectSeq(out, IsReport)) = selected
        /\ Said("errorOccurred") =>
              ArgsOf(SelectSeq(out, IsAggregate)) = <<Head(FailedInInputOrder)>>

====
